---- MODULE Spec2Model ----
(***************************************************************************)
(* Wind cartouche injection (vent-pdf).  One run of one of the three       *)
(* scripts of the repository:                                              *)
(*   "mixed"       inject_wind_to_pdf_mixed.py       (Open-Meteo realtime, *)
(*                 fallback Meteo-France forecast, static city table)      *)
(*   "meteofrance" inject_wind_to_pdf_meteofrance.py (forecast only,       *)
(*                 static city table)                                      *)
(*   "openmeteo"   inject_wind_to_pdf_openmeteo.py   (forecast only,       *)
(*                 place found by a geocode search)                        *)
(*                                                                         *)
(* Units.  A Python float is the exact decimal v * 10^-e of a record       *)
(* [k |-> "num", v, e]; values read from upstream have e = 0 and v in:     *)
(*   speeds     in thousandths of km/h   (36 km/h  = 36000)                *)
(*   directions in quarter degrees       (270 deg  = 1080, 22.5 deg = 90)  *)
(*   lengths    in points                                                  *)
(*   lat / lon  in 1e-4 degree                                             *)
(* Text that is only displayed is a TLA+ string; text that the code        *)
(* normalises (the --ville argument, place names) is a sequence of         *)
(* code points, each a record [b, up, acc].                                *)
(***************************************************************************)
EXTENDS Integers, Sequences, FiniteSets, TLC

VARIABLES
    variant,    \* which script runs
    pc,         \* position of main()
    args,       \* parsed command line (ville, w, h, fontsize, title_fontsize, margin)
    places,     \* reply of search_places (openmeteo script)
    meta,       \* resolved place record
    ville,      \* displayed name (line 1)
    tzname,     \* timezone used for the date line
    omf,        \* "current" object received from Open-Meteo
    fc,         \* forecast object received from Meteo-France
    now,        \* int(time.time())
    best,       \* forecast step selected by min(...)
    mf,         \* tuple returned by the forecast fetch
    spd,        \* speed finally used
    deg,        \* direction finally used
    source,     \* provenance tag
    lines,      \* the four text lines
    pr,         \* page.rect of page 0 of the input document
    box,        \* cartouche rectangle
    placed,     \* text insertions made on the page, in order
    output,     \* document written by doc.save
    error,      \* exception that ended the run
    wall,       \* clock reading of datetime.now() for the date line
    asked       \* upstream weather calls made so far, by provenance tag

vars == <<variant, pc, args, places, meta, ville, tzname, omf, fc, now, best, mf,
          spd, deg, source, lines, pr, box, placed, output, error, wall, asked>>

(***************************************************************************)
(* Python values                                                           *)
(***************************************************************************)
None == [k |-> "none"]
Num(v) == [k |-> "num", v |-> v, e |-> 0]
\* a value float() / int() rejects (a non numeric string)
Bad == [k |-> "bad"]
Dict(d) == [k |-> "dict", d |-> d]
EmptyDict == [x \in {} |-> None]

NotQueried == [k |-> "not queried"]
Raised == [k |-> "raised"]

(***************************************************************************)
(* Code points and the text utilities                                      *)
(***************************************************************************)
L(b) == [b |-> b, up |-> FALSE, acc |-> FALSE]
U(b) == [b |-> b, up |-> TRUE, acc |-> FALSE]
Space == [b |-> " ", up |-> FALSE, acc |-> FALSE]
\* U+0301 COMBINING ACUTE ACCENT
CombiningAcute == [b |-> "U+0301", up |-> FALSE, acc |-> FALSE]

\* unicodedata.category
category(c) ==
    IF c = CombiningAcute THEN "Mn"
    ELSE IF c = Space THEN "Zs"
    ELSE IF c.up THEN "Lu" ELSE "Ll"

\* unicodedata.normalize("NFD", s): a precomposed letter becomes letter + mark
RECURSIVE NFD(_)
NFD(s) ==
    IF s = <<>> THEN <<>>
    ELSE LET c == Head(s) IN
         (IF c.acc THEN <<[c EXCEPT !.acc = FALSE], CombiningAcute>> ELSE <<c>>)
             \o NFD(Tail(s))

RECURSIVE DropMn(_)
DropMn(s) ==
    IF s = <<>> THEN <<>>
    ELSE (IF category(Head(s)) # "Mn" THEN <<Head(s)>> ELSE <<>>) \o DropMn(Tail(s))

strip_accents(s) == DropMn(NFD(s))

\* str.lower()
lower(s) == [i \in 1..Len(s) |-> [s[i] EXCEPT !.up = FALSE]]

RECURSIVE lstrip(_)
lstrip(s) == IF s # <<>> /\ Head(s) = Space THEN lstrip(Tail(s)) ELSE s

RECURSIVE rstrip(_)
rstrip(s) ==
    IF s # <<>> /\ s[Len(s)] = Space THEN rstrip(SubSeq(s, 1, Len(s) - 1)) ELSE s

\* str.strip()
strip(s) == rstrip(lstrip(s))

(***************************************************************************)
(* CITY_MAP                                                                *)
(***************************************************************************)
KeyReims == <<L("r"), L("e"), L("i"), L("m"), L("s")>>
KeyEpernay == <<L("e"), L("p"), L("e"), L("r"), L("n"), L("a"), L("y")>>
NameReims == <<U("r"), L("e"), L("i"), L("m"), L("s")>>
NameEpernay == <<U("e"), L("p"), L("e"), L("r"), L("n"), L("a"), L("y")>>

\* the keys in the dict's insertion order, as ", ".join(CITY_MAP) lists them
CityKeys == <<KeyReims, KeyEpernay>>

CITY_MAP ==
    [key \in {KeyReims, KeyEpernay} |->
        IF key = KeyReims
        THEN [name |-> NameReims, lat |-> 492583, lon |-> 40317, tz |-> "Europe/Paris"]
        ELSE [name |-> NameEpernay, lat |-> 490400, lon |-> 39600, tz |-> "Europe/Paris"]]

NoMeta == [name |-> <<>>, lat |-> 0, lon |-> 0, tz |-> ""]

(***************************************************************************)
(* deg_to_compass                                                          *)
(***************************************************************************)
arr == <<"N", "NNE", "NE", "ENE", "E", "ESE", "SE", "SSE",
         "S", "SSO", "SO", "OSO", "O", "ONO", "NO", "NNO">>

\* int(x): truncation toward zero of n / d, d > 0
TruncDiv(n, d) == IF n >= 0 THEN n \div d ELSE -((-n) \div d)

\* the index without the + 0.5: int(deg / 22.5)
deg_to_compass_truncated(q) == arr[(TruncDiv(q, 90) % 16) + 1]

\* q is the direction in quarter degrees: (deg / 22.5) + 0.5 = (q + 45) / 90
deg_to_compass(q) == arr[(TruncDiv(q + 45, 90) % 16) + 1]

(***************************************************************************)
(* f"{spd:.1f} km/h"                                                       *)
(*                                                                         *)
(* The float that is formatted is the binary double, which a decimal       *)
(* exactly half way between two tenths rarely equals: the double lies      *)
(* above or below it, and the tenth printed follows the double.            *)
(***************************************************************************)
RECURSIVE BitLen(_)
BitLen(n) == IF n = 0 THEN 0 ELSE 1 + BitLen(n \div 2)

\* Binary long division of r / q (0 <= r < q), left significant bits still to
\* produce; started is FALSE while only leading zero bits have come out.  The
\* result says where the 53-bit double lies: 1 above the quotient, -1 below,
\* 0 on it.
RECURSIVE Scan(_, _, _, _)
Scan(r, q, left, started) ==
    IF r = 0 THEN 0
    ELSE IF left = 0 THEN (IF 2 * r > q THEN 1 ELSE -1)
    ELSE LET bit == IF 2 * r >= q THEN 1 ELSE 0
         IN Scan(2 * r - q * bit, q, IF started \/ bit = 1 THEN left - 1 ELSE left,
                 started \/ bit = 1)

\* float("a / 1000"): the double nearest to a thousandths, a >= 0
DecimalSide(a) == Scan(a % 1000, 1000, 53 - BitLen(a \div 1000), a >= 1000)

RECURSIVE Log2(_, _)
\* the largest k with d * 2^k <= n (n >= d)
Log2(n, d) == IF 2 * d <= n THEN 1 + Log2(n, 2 * d) ELSE 0

RECURSIVE Pow2(_)
Pow2(k) == IF k = 0 THEN 1 ELSE 2 * Pow2(k - 1)

\* The double 3.6 is M / 2^51 with M = (18 * 2^51 + 1) / 5 = 8106479329266893;
\* these are its 24 lowest bits, M % 2^24.
DoubleM24 == 13421773

\* (a * b) % 2^K by shift and add, every intermediate value below 2^(K + 1)
RECURSIVE MulLow(_, _, _)
MulLow(a, b, K) ==
    IF b = 0 THEN 0
    ELSE ((IF b % 2 = 1 THEN a ELSE 0) + MulLow((2 * a) % Pow2(K), b \div 2, K)) % Pow2(K)

\* (m / 8) * 3.6 for an odd m > 0, the speeds whose product is half way
\* between two tenths.  The product m * M loses its k lowest bits when it is
\* rounded to 53 bits; P holds the k + 1 lowest bits of m * M (k < 24).
ProductSide(m) ==
    LET k == Log2(9 * m, 5)
        P == MulLow(m % Pow2(k + 1), DoubleM24 % Pow2(k + 1), k + 1)
        low == P % Pow2(k)
        bit == P \div Pow2(k)
        up == IF 2 * low > Pow2(k) \/ (2 * low = Pow2(k) /\ bit = 1) THEN 1 ELSE 0
        d == 5 * (up * Pow2(k) - low) + m
    IN IF d > 0 THEN 1 ELSE IF d < 0 THEN -1 ELSE 0

\* the tenths printed for the magnitude of s: the double rounded to the nearest
\* tenth, half-even when the double is exactly half way
Tenths(s) ==
    LET a == IF s.v < 0 THEN -s.v ELSE s.v
        tenth == IF s.e = 1 THEN 1000 ELSE 100
        f == a \div tenth
        r == a % tenth
        side == IF s.e = 1 THEN ProductSide((a \div 36) \div 125) ELSE DecimalSide(a)
    IN IF 2 * r < tenth THEN f
       ELSE IF 2 * r > tenth THEN f + 1
       ELSE IF side > 0 \/ (side = 0 /\ f % 2 = 1) THEN f + 1 ELSE f

format_speed(s) ==
    (IF s.v < 0 THEN "-" ELSE "") \o ToString(Tenths(s) \div 10) \o "."
        \o ToString(Tenths(s) % 10) \o " km/h"

(***************************************************************************)
(* Open-Meteo "current" (mixed script)                                     *)
(***************************************************************************)
\* dict.get(k)
Get(d, k) == IF k \in DOMAIN d THEN d[k] ELSE None

\* the same fetch without the "both or nothing" test of line 59
fetch_openmeteo_current_partial(r) ==
    IF r = Raised THEN <<None, None>>
    ELSE LET s == Get(r.d, "wind_speed_10m")
             d == Get(r.d, "wind_direction_10m")
         IN IF (s # None /\ s.k # "num") \/ (d # None /\ d.k # "num")
            THEN <<None, None>>
            ELSE <<s, d>>

\* r is Raised when requests.get / raise_for_status / r.json() raised, and
\* otherwise Dict(cur).  The result is <<spd, deg>> (iso is not used by main).
fetch_openmeteo_current(r) ==
    IF r = Raised THEN <<None, None>>
    ELSE LET s == Get(r.d, "wind_speed_10m")
             d == Get(r.d, "wind_direction_10m")
         IN IF s = None \/ d = None THEN <<None, None>>
            ELSE IF s.k # "num" \/ d.k # "num" THEN <<None, None>>  \* float() raised
            ELSE <<s, d>>

(***************************************************************************)
(* Meteo-France forecast                                                   *)
(***************************************************************************)
\* abs(int(s.get("dt", now)) - now); only called when DtOk(s)
DtOk(s) == "dt" \in DOMAIN s => s["dt"].k = "num"
\* a missing dt read as 0: s.get("dt", 0)
StepDt_epoch(s, t) == IF "dt" \in DOMAIN s THEN s["dt"].v ELSE 0
StepDt(s, t) == IF "dt" \in DOMAIN s THEN s["dt"].v ELSE t
Abs(n) == IF n < 0 THEN -n ELSE n
StepKey(s, t) == Abs(StepDt(s, t) - t)

\* min(steps, key=...): scan left to right, replace the candidate only by a
\* strictly smaller key
RECURSIVE MinScan(_, _, _, _)
MinScan(steps, t, i, b) ==
    IF i > Len(steps) THEN b
    ELSE MinScan(steps, t, i + 1,
                 IF StepKey(steps[i], t) < StepKey(steps[b], t) THEN i ELSE b)

\* a scan that lets a later step with an equal key replace the candidate
RECURSIVE MinScanLast(_, _, _, _)
MinScanLast(steps, t, i, b) ==
    IF i > Len(steps) THEN b
    ELSE MinScanLast(steps, t, i + 1,
                     IF StepKey(steps[i], t) <= StepKey(steps[b], t) THEN i ELSE b)

NearestIndex_last(steps, t) == MinScanLast(steps, t, 2, 1)

NearestIndex(steps, t) == MinScan(steps, t, 2, 1)

SpeedKeys == <<"wind10m", "wind_speed_10m", "windspeed10m", "wind_speed", "WindSpeed">>
DirKeys == <<"dirwind10m", "wind_direction_10m", "winddir10m", "wind_direction",
             "WindDirection">>
WindSpeedKeys == <<"speed", "speed10m", "v">>
WindDirKeys == <<"dir", "direction", "d">>

\* for k in keys: if k in d and d[k] is not None: try: x = float(d[k]); break
RECURSIVE Probe(_, _)
Probe(d, keys) ==
    IF keys = <<>> THEN None
    ELSE LET k == Head(keys) IN
         IF k \in DOMAIN d /\ d[k] # None /\ d[k].k = "num" THEN d[k]
         ELSE Probe(d, Tail(keys))

\* speed and deg after the direct keys and the "wind" sub-object
ExtractSpeed(b) ==
    LET top == Probe(b, SpeedKeys)
        dtop == Probe(b, DirKeys)
        w == Get(b, "wind")
    IN IF (top = None \/ dtop = None) /\ w.k = "dict" /\ top = None
       THEN Probe(w.d, WindSpeedKeys) ELSE top

ExtractDeg(b) ==
    LET top == Probe(b, SpeedKeys)
        dtop == Probe(b, DirKeys)
        w == Get(b, "wind")
    IN IF (top = None \/ dtop = None) /\ w.k = "dict" /\ dtop = None
       THEN Probe(w.d, WindDirKeys) ELSE dtop

MsThreshold == 40

\* no conversion at all
UnitHeuristic_skipped(speed) == speed

\* if speed is not None and speed < 40: speed = speed * 3.6
\* the product is kept exact: 3.6 * v thousandths = 36 * v ten-thousandths
\* (the model covers the speeds whose 36 * v is below 2^31)
UnitHeuristic(speed) ==
    IF speed # None /\ speed.v < MsThreshold * 1000
    THEN [k |-> "num", v |-> 36 * speed.v, e |-> 1] ELSE speed

\* the default zone whatever the forecast declares
ForecastTz_default(position) == "Europe/Paris"

\* tz = "Europe/Paris"; try: tz = fc.position.get("timezone", tz) or tz
ForecastTz(position) ==
    IF position.k # "dict" THEN "Europe/Paris"
    ELSE IF "timezone" \in DOMAIN position.d /\ position.d["timezone"] # ""
         THEN position.d["timezone"] ELSE "Europe/Paris"

NoStep == EmptyDict
NoReturn == [speed |-> None, deg |-> None, tz |-> "", step_dt |-> None]
Threw(who) == [raised |-> TRUE, origin |-> who, ret |-> NoReturn, best |-> NoStep]
Returned(speed, d, tz, dt, b) ==
    [raised |-> FALSE, origin |-> "",
     ret |-> [speed |-> speed, deg |-> d, tz |-> tz, step_dt |-> dt], best |-> b]

\* r is Raised when client.get_forecast raised, otherwise the forecast object
mf_fetch_near_now_wind_latlon(r, t) ==
    IF r = Raised THEN Threw("mf_fetch_near_now_wind_latlon")
    ELSE IF r.forecast = <<>> THEN Returned(None, None, "Europe/Paris", None, NoStep)
    ELSE IF \E i \in 1..Len(r.forecast) : ~DtOk(r.forecast[i])
         THEN Threw("mf_fetch_near_now_wind_latlon")
    ELSE LET b == r.forecast[NearestIndex(r.forecast, t)]
         IN Returned(UnitHeuristic(ExtractSpeed(b)), ExtractDeg(b),
                     ForecastTz(r.position), Num(StepDt(b, t)), b)

\* openmeteo script: only wind10m / dirwind10m are read, float() is unguarded,
\* no unit conversion, a 3-tuple is returned
mf_fetch_near_now_wind(r, t) ==
    IF r = Raised THEN Threw("mf_fetch_near_now_wind")
    ELSE IF r.forecast = <<>> THEN Returned(None, None, "Europe/Paris", None, NoStep)
    ELSE IF \E i \in 1..Len(r.forecast) : ~DtOk(r.forecast[i])
         THEN Threw("mf_fetch_near_now_wind")
    ELSE LET b == r.forecast[NearestIndex(r.forecast, t)]
             s == Get(b, "wind10m")
             d == Get(b, "dirwind10m")
         IN IF (s # None /\ s.k # "num") \/ (d # None /\ d.k # "num")
            THEN Threw("mf_fetch_near_now_wind")
            ELSE Returned(s, d, ForecastTz(r.position), None, b)

(***************************************************************************)
(* Rendering                                                               *)
(***************************************************************************)
Fonts == <<"Times-Roman", "helv">>
Measure(font) == "get_text_length:" \o font
Insert(font) == "insert_text:" \o font
\* the last insert_text names no font
InsertDefault == "insert_text"
BackendCalls == {Measure(Fonts[1]), Insert(Fonts[1]), Measure(Fonts[2]), Insert(Fonts[2]),
                 InsertDefault}

\* fitz.get_text_length: the library's measure, here an advance per point of
\* font size that differs between the two fonts
TextLength(text, font, fontsize) == fontsize * (IF font = "Times-Roman" THEN 5 ELSE 6)

BlindOffset == 200

NoItem == [text |-> "", fontname |-> "", fontsize |-> 0, x |-> 0, y |-> 0, measured |-> FALSE]

\* F is the set of backend calls that raise during this call
RECURSIVE TryFonts(_, _, _, _, _, _)
TryFonts(fonts, F, right_x, baseline_y, text, fontsize) ==
    IF fonts = <<>>
    THEN IF InsertDefault \in F
         THEN [raised |-> TRUE, item |-> NoItem]
         ELSE [raised |-> FALSE,
               item |-> [text |-> text, fontname |-> "", fontsize |-> fontsize,
                         x |-> right_x - BlindOffset, y |-> baseline_y,
                         measured |-> FALSE]]
    ELSE LET font == Head(fonts) IN
         IF Measure(font) \in F \/ Insert(font) \in F
         THEN TryFonts(Tail(fonts), F, right_x, baseline_y, text, fontsize)
         ELSE [raised |-> FALSE,
               item |-> [text |-> text, fontname |-> font, fontsize |-> fontsize,
                         x |-> right_x - TextLength(text, font, fontsize),
                         y |-> baseline_y, measured |-> TRUE]]

draw_line_right(F, right_x, baseline_y, text, fontsize) ==
    TryFonts(Fonts, F, right_x, baseline_y, text, fontsize)

Padding == 6
Leading == 5

\* inner = fitz.Rect(rect.x0 + p, rect.y0 + p, rect.x1 - p, rect.y1 - p)
Inner(b) == [x0 |-> b.x + Padding, y0 |-> b.y + Padding,
             x1 |-> b.x + b.w - Padding, y1 |-> b.y + b.h - Padding]

\* body lines that add the title's height allowance at every line
Baseline_title_each(b, title_fontsize, body_fontsize, i) ==
    Inner(b).y0 + title_fontsize
        + (IF i = 1 THEN 0 ELSE (i - 1) * ((title_fontsize + Leading) + body_fontsize))

\* baseline of line i (1 = title) as draw_cartouche computes it
RECURSIVE Baseline(_, _, _, _)
Baseline(b, title_fontsize, body_fontsize, i) ==
    IF i = 1 THEN Inner(b).y0 + title_fontsize
    ELSE IF i = 2 THEN Inner(b).y0 + (title_fontsize + Leading) + body_fontsize
    ELSE Baseline(b, title_fontsize, body_fontsize, i - 1) + (body_fontsize + Leading)

(***************************************************************************)
(* Date line                                                               *)
(***************************************************************************)
\* An excerpt of the IANA database ZoneInfo reads, for instants 0 <= t < 2^31:
\* the offset from UTC in seconds at t = 0 (first), the offset the zone
\* alternates with (other), and the instants at which it changes.
TzParis ==
    [first |-> 3600, other |-> 7200,
     at |-> <<
          196819200, 212540400, 228877200, 243997200, 260326800,
          276051600, 291776400, 307501200, 323830800, 338950800,
          354675600, 370400400, 386125200, 401850000, 417574800,
          433299600, 449024400, 465354000, 481078800, 496803600,
          512528400, 528253200, 543978000, 559702800, 575427600,
          591152400, 606877200, 622602000, 638326800, 654656400,
          670381200, 686106000, 701830800, 717555600, 733280400,
          749005200, 764730000, 780454800, 796179600, 811904400,
          828234000, 846378000, 859683600, 877827600, 891133200,
          909277200, 922582800, 941331600, 954032400, 972781200,
          985482000, 1004230800, 1017536400, 1035680400, 1048986000,
          1067130000, 1080435600, 1099184400, 1111885200, 1130634000,
          1143334800, 1162083600, 1174784400, 1193533200, 1206838800,
          1224982800, 1238288400, 1256432400, 1269738000, 1288486800,
          1301187600, 1319936400, 1332637200, 1351386000, 1364691600,
          1382835600, 1396141200, 1414285200, 1427590800, 1445734800,
          1459040400, 1477789200, 1490490000, 1509238800, 1521939600,
          1540688400, 1553994000, 1572138000, 1585443600, 1603587600,
          1616893200, 1635642000, 1648342800, 1667091600, 1679792400,
          1698541200, 1711846800, 1729990800, 1743296400, 1761440400,
          1774746000, 1792890000, 1806195600, 1824944400, 1837645200,
          1856394000, 1869094800, 1887843600, 1901149200, 1919293200,
          1932598800, 1950742800, 1964048400, 1982797200, 1995498000,
          2014246800, 2026947600, 2045696400, 2058397200, 2077146000,
          2090451600, 2108595600, 2121901200, 2140045200>>]

TzLondon ==
    [first |-> 3600, other |-> 0,
     at |-> <<
          57722400, 69818400, 89172000, 101268000, 120621600, 132717600,
          152071200, 164167200, 183520800, 196221600, 214970400,
          227671200, 246420000, 259120800, 278474400, 290570400,
          309924000, 322020000, 341373600, 354675600, 372819600,
          386125200, 404269200, 417574800, 435718800, 449024400,
          467773200, 481078800, 499222800, 512528400, 530672400,
          543978000, 562122000, 575427600, 593571600, 606877200,
          625626000, 638326800, 657075600, 670381200, 688525200,
          701830800, 719974800, 733280400, 751424400, 764730000,
          782874000, 796179600, 814323600, 828234000, 846378000,
          859683600, 877827600, 891133200, 909277200, 922582800,
          941331600, 954032400, 972781200, 985482000, 1004230800,
          1017536400, 1035680400, 1048986000, 1067130000, 1080435600,
          1099184400, 1111885200, 1130634000, 1143334800, 1162083600,
          1174784400, 1193533200, 1206838800, 1224982800, 1238288400,
          1256432400, 1269738000, 1288486800, 1301187600, 1319936400,
          1332637200, 1351386000, 1364691600, 1382835600, 1396141200,
          1414285200, 1427590800, 1445734800, 1459040400, 1477789200,
          1490490000, 1509238800, 1521939600, 1540688400, 1553994000,
          1572138000, 1585443600, 1603587600, 1616893200, 1635642000,
          1648342800, 1667091600, 1679792400, 1698541200, 1711846800,
          1729990800, 1743296400, 1761440400, 1774746000, 1792890000,
          1806195600, 1824944400, 1837645200, 1856394000, 1869094800,
          1887843600, 1901149200, 1919293200, 1932598800, 1950742800,
          1964048400, 1982797200, 1995498000, 2014246800, 2026947600,
          2045696400, 2058397200, 2077146000, 2090451600, 2108595600,
          2121901200, 2140045200>>]

TzMartinique ==
    [first |-> -14400, other |-> -10800,
     at |-> <<
          323841600, 338958000>>]

TzFixed0 ==
    [first |-> 0, other |-> 0,
     at |-> <<>>]

TzReunion ==
    [first |-> 14400, other |-> 14400,
     at |-> <<>>]

TzTokyo ==
    [first |-> 32400, other |-> 32400,
     at |-> <<>>]

Tzdb ==
    [tz \in {"Europe/Paris", "Europe/London", "America/Martinique", "UTC", "Etc/UTC",
             "Indian/Reunion", "Asia/Tokyo"} |->
        CASE tz = "Europe/Paris" -> TzParis
          [] tz = "Europe/London" -> TzLondon
          [] tz = "America/Martinique" -> TzMartinique
          [] tz = "Indian/Reunion" -> TzReunion
          [] tz = "Asia/Tokyo" -> TzTokyo
          [] OTHER -> TzFixed0]

\* keys ZoneInfo rejects: the empty key, a key of no zone
NoSuchZone == {"", "Mars/Phobos"}

\* ZoneInfo(tz) does not raise
ZoneKnown(tz) ==
    CASE tz \in DOMAIN Tzdb -> TRUE
      [] tz \in NoSuchZone -> FALSE

\* utcoffset() of the zone at the instant t
UtcOffset(tz, t) ==
    LET z == Tzdb[tz]
        passed == Cardinality({i \in 1..Len(z.at) : z.at[i] <= t})
    IN IF passed % 2 = 0 THEN z.first ELSE z.other

\* datetime.now(ZoneInfo(tz)).strftime(...), or utcnow() when ZoneInfo raises;
\* the local wall clock reading stands for its dd/mm/YYYY HH:MM:SS text
DateTxt(t, tz) == ToString(t + (IF ZoneKnown(tz) THEN UtcOffset(tz, t) ELSE 0))

(***************************************************************************)
(* main()                                                                  *)
(*                                                                         *)
(* Every action takes the universe W of inputs the environment may supply: *)
(*   W.variants  scripts                W.villes  --ville arguments         *)
(*   W.cfgs      layout arguments       W.nows    clock readings            *)
(*   W.geo       search_places replies  W.omf     Open-Meteo replies        *)
(*   W.fc        get_forecast replies   W.pages   page rectangles           *)
(*   W.calls     sets of backend calls that may raise while a line is drawn *)
(*   W.lags      seconds between the two readings of the clock             *)
(*   W.io        outcomes of fitz.open / doc.save (TRUE = success)          *)
(* --stamp, --show-source and --debug keep their defaults (no stamp, no     *)
(* source tag, no debug print).                                            *)
(***************************************************************************)
NoError == [type |-> "", origin |-> "", ville |-> <<>>, dispo |-> <<>>]
Err(type, origin) == [type |-> type, origin |-> origin, ville |-> <<>>, dispo |-> <<>>]
NoBox == [x |-> 0, y |-> 0, w |-> 0, h |-> 0]
NoRect == [x0 |-> 0, y0 |-> 0, x1 |-> 0, y1 |-> 0]
NoOutput == <<>>

Init(W) ==
    /\ variant \in W.variants
    /\ pc = "resolve"
    /\ args \in {[ville |-> v, w |-> c.w, h |-> c.h, fontsize |-> c.fontsize,
                  title_fontsize |-> c.title_fontsize, margin |-> c.margin] :
                 v \in W.villes, c \in W.cfgs}
    /\ now \in W.nows
    /\ places = NotQueried
    /\ meta = NoMeta
    /\ ville = <<>>
    /\ tzname = ""
    /\ omf = NotQueried
    /\ fc = NotQueried
    /\ best = NoStep
    /\ mf = NotQueried
    /\ spd = None
    /\ deg = None
    /\ source = "None"
    /\ lines = <<>>
    /\ pr = NoRect
    /\ box = NoBox
    /\ placed = <<>>
    /\ output = NoOutput
    /\ error = NoError
    /\ wall = None
    /\ asked = <<>>

\* the run ends on an uncaught exception; nothing is saved
Abort(e) ==
    /\ pc' = "aborted"
    /\ error' = e

\* the key without .lower()
CityKey_cased(v) == strip(strip_accents(v))

\* key = strip_accents(args.ville).lower().strip()
CityKey(v) == strip(lower(strip_accents(v)))

\* mixed and meteofrance scripts: lookup in CITY_MAP
ResolveStatic ==
    /\ pc = "resolve"
    /\ variant \in {"mixed", "meteofrance"}
    /\ LET key == CityKey(args.ville) IN
       IF key \notin DOMAIN CITY_MAP
       THEN /\ Abort([type |-> "ValueError", origin |-> "main",
                      ville |-> args.ville, dispo |-> CityKeys])
            /\ UNCHANGED <<meta, ville, tzname>>
       ELSE /\ meta' = CITY_MAP[key]
            /\ ville' = CITY_MAP[key].name
            /\ tzname' = CITY_MAP[key].tz
            /\ pc' = IF variant = "mixed" THEN "realtime" ELSE "forecast"
            /\ error' = error
    /\ UNCHANGED <<asked, wall, variant, args, places, omf, fc, now, best, mf, spd, deg, source,
                   lines, pr, box, placed, output>>

\* openmeteo script: mf_search_place, first result wins
ResolveGeocode(W) ==
    /\ pc = "resolve"
    /\ variant = "openmeteo"
    /\ \E r \in W.geo :
        /\ places' = r
        /\ IF r = Raised
           THEN /\ Abort(Err("Exception", "mf_search_place"))
                /\ UNCHANGED <<meta, ville>>
           ELSE IF r.list = <<>>
           THEN /\ Abort([type |-> "ValueError", origin |-> "mf_search_place",
                          ville |-> args.ville, dispo |-> <<>>])
                /\ UNCHANGED <<meta, ville>>
           ELSE /\ meta' = r.list[1]
                /\ ville' = strip_accents(IF r.list[1].name # <<>> THEN r.list[1].name
                                          ELSE args.ville)
                /\ pc' = "forecast"
                /\ error' = error
    /\ UNCHANGED <<asked, wall, variant, args, tzname, omf, fc, now, best, mf, spd, deg, source,
                   lines, pr, box, placed, output>>

\* a fallback made whatever the realtime fetch returned
NeedsFallback_always(s, d) == TRUE

\* if spd is None or deg is None: (ask the forecast)
NeedsFallback(s, d) == s = None \/ d = None

\* mixed script, step 1: Open-Meteo realtime
FetchRealtime(W) ==
    /\ pc = "realtime"
    /\ \E r \in W.omf :
        LET res == fetch_openmeteo_current(r) IN
        /\ omf' = r
        /\ asked' = Append(asked, "OMF")
        /\ spd' = res[1]
        /\ deg' = res[2]
        /\ source' = IF res[1] # None /\ res[2] # None THEN "OMF" ELSE "None"
        /\ pc' = IF NeedsFallback(res[1], res[2]) THEN "forecast" ELSE "format"
    /\ UNCHANGED <<wall, variant, args, places, meta, ville, tzname, fc, now, best, mf,
                   lines, pr, box, placed, output, error>>

ForecastFetch(r, t) ==
    IF variant = "openmeteo" THEN mf_fetch_near_now_wind(r, t)
    ELSE mf_fetch_near_now_wind_latlon(r, t)

\* the Meteo-France fetch and what main does with its result
FetchForecast(W) ==
    /\ pc = "forecast"
    /\ \E r \in W.fc :
        LET res == ForecastFetch(r, now) IN
        /\ fc' = r
        /\ asked' = Append(asked, "MF")
        /\ IF res.raised
           THEN /\ Abort(Err("Exception", res.origin))
                /\ UNCHANGED <<mf, best, spd, deg, tzname, source>>
           ELSE /\ mf' = res.ret
                /\ best' = res.best
                /\ pc' = "format"
                /\ error' = error
                /\ IF variant = "mixed"
                   THEN IF res.ret.speed # None /\ res.ret.deg # None
                        THEN /\ spd' = res.ret.speed
                             /\ deg' = res.ret.deg
                             /\ tzname' = (IF res.ret.tz # "" THEN res.ret.tz ELSE tzname)
                             /\ source' = "MF"
                        ELSE UNCHANGED <<spd, deg, tzname, source>>
                   ELSE /\ spd' = res.ret.speed
                        /\ deg' = res.ret.deg
                        /\ tzname' = (IF variant = "meteofrance" /\ res.ret.tz = ""
                                      THEN tzname ELSE res.ret.tz)
                        /\ source' = source
    /\ UNCHANGED <<wall, variant, args, places, meta, ville, omf, now, lines, pr, box,
                   placed, output>>

\* the date line and the two wind lines.  now is the clock as the forecast
\* fetch read it (time.time()); datetime.now() reads it again, lag seconds later
Format(W) ==
    /\ pc = "format"
    /\ \E lag \in W.lags :
        LET zone == IF variant = "openmeteo" /\ tzname = "" THEN "Europe/Paris"
                    ELSE tzname
            date_txt == DateTxt(now + lag, zone)
            direction == IF deg # None THEN deg_to_compass(deg.v) ELSE "N/A"
            vitesse == IF spd # None THEN format_speed(spd) ELSE "N/A"
        IN /\ wall' = Num(now + lag)
           /\ lines' = <<ville, date_txt, "Direction : " \o direction,
                         "Vitesse : " \o vitesse>>
    /\ pc' = "open"
    /\ UNCHANGED <<asked, variant, args, places, meta, ville, tzname, omf, fc, now, best, mf,
                   spd, deg, source, pr, box, placed, output, error>>

\* fitz.open, page = doc[0], the box position and its frame
OpenDoc(W) ==
    /\ pc = "open"
    /\ \E ok \in W.io, r \in W.pages :
        IF ~ok
        THEN /\ Abort(Err("Exception", "fitz.open"))
             /\ UNCHANGED <<pr, box>>
        ELSE /\ pr' = r
             /\ box' = [x |-> r.x1 - args.w - args.margin, y |-> r.y0 + args.margin,
                        w |-> args.w, h |-> args.h]
             /\ pc' = "draw"
             /\ error' = error
    /\ UNCHANGED <<asked, wall, variant, args, places, meta, ville, tzname, omf, fc, now, best, mf,
                   spd, deg, source, lines, placed, output>>

\* one _draw_line_right call of draw_cartouche: line Len(placed) + 1
DrawLine(W) ==
    /\ pc = "draw"
    /\ \E F \in W.calls :
        LET i == Len(placed) + 1
            res == draw_line_right(F, Inner(box).x1,
                                   Baseline(box, args.title_fontsize, args.fontsize, i),
                                   lines[i],
                                   IF i = 1 THEN args.title_fontsize ELSE args.fontsize)
        IN IF res.raised
           THEN /\ Abort(Err("Exception", "_draw_line_right"))
                /\ placed' = placed
           ELSE /\ placed' = Append(placed, res.item)
                /\ pc' = IF i = 4 THEN "save" ELSE "draw"
                /\ error' = error
    /\ UNCHANGED <<asked, wall, variant, args, places, meta, ville, tzname, omf, fc, now, best, mf,
                   spd, deg, source, lines, pr, box, output>>

\* doc.save(args.output)
SaveDoc(W) ==
    /\ pc = "save"
    /\ \E ok \in W.io :
        IF ~ok
        THEN /\ Abort(Err("Exception", "doc.save"))
             /\ output' = output
        ELSE /\ output' = placed
             /\ pc' = "done"
             /\ error' = error
    /\ UNCHANGED <<asked, wall, variant, args, places, meta, ville, tzname, omf, fc, now, best, mf,
                   spd, deg, source, lines, pr, box, placed>>

Next(W) ==
    \/ ResolveStatic
    \/ ResolveGeocode(W)
    \/ FetchRealtime(W)
    \/ FetchForecast(W)
    \/ Format(W)
    \/ OpenDoc(W)
    \/ DrawLine(W)
    \/ SaveDoc(W)

(***************************************************************************)
(* Inputs                                                                  *)
(***************************************************************************)
Variants == {"mixed", "meteofrance", "openmeteo"}

\* the argparse defaults
DefaultCfg == [w |-> 135, h |-> 74, fontsize |-> 12, title_fontsize |-> 14, margin |-> 12]
A4 == [x0 |-> 0, y0 |-> 0, x1 |-> 595, y1 |-> 842]
\* a page whose rectangle does not start at the origin
Shifted == [x0 |-> 10, y0 |-> 20, x1 |-> 622, y1 |-> 812]

\* a dict with the key k unless v is Absent
Absent == [k |-> "absent"]
Opt(k, v) == IF v = Absent THEN EmptyDict ELSE (k :> v)

Cur(s, d) == Dict(Opt("wind_speed_10m", s) @@ Opt("wind_direction_10m", d))
\* a complete Open-Meteo reading: 20.5 km/h from 90 degrees
CurComplete == Cur(Num(20500), Num(360))
OmfReplies ==
    {Raised} \cup {Cur(s, d) : s \in {Absent, Num(20500), Bad}, d \in {None, Num(360)}}

Fc(steps, position) == [k |-> "fc", forecast |-> steps, position |-> position]
Step(dt, body) == Opt("dt", dt) @@ body
S36 == Step(Num(970), ("wind10m" :> Num(36000)) @@ ("dirwind10m" :> Num(1080)))
S55 == Step(Num(1030), ("wind10m" :> Num(55000)) @@ ("dirwind10m" :> Num(180)))
S18w == Step(Num(400), ("wind" :> Dict(("speed" :> Num(18000)) @@ ("direction" :> Num(720)))))
S40 == Step(Num(1000), ("wind_speed" :> Num(40000)))
\* 0.125 m/s, 0.45 km/h once converted: half way between two tenths
SEighth == Step(Num(1000), ("wind10m" :> Num(125)) @@ ("dirwind10m" :> Num(0)))
SBadDt == Step(Bad, ("wind10m" :> Num(36000)) @@ ("dirwind10m" :> Num(1080)))
SBadSpeed == Step(Num(1000), ("wind10m" :> Bad) @@ ("dirwind10m" :> Num(1080)))
Martinique == Dict("timezone" :> "America/Martinique")

FcReplies ==
    {Raised,
     Fc(<<>>, None),
     Fc(<<S36>>, None),
     Fc(<<S55, S36>>, Martinique),
     Fc(<<S18w>>, Dict(EmptyDict)),
     Fc(<<S40>>, None),
     Fc(<<SEighth>>, None),
     Fc(<<SBadDt, S36>>, None),
     Fc(<<SBadSpeed>>, None)}

\* places the geocode search may return
PlaceReims == [name |-> NameReims, lat |-> 492583, lon |-> 40317, tz |-> ""]
PlaceEpernay ==
    [name |-> <<[b |-> "e", up |-> TRUE, acc |-> TRUE]>> \o Tail(NameEpernay),
     lat |-> 490400, lon |-> 39600, tz |-> ""]
Places(list) == [k |-> "places", list |-> list]
GeoReplies == {Raised, Places(<<>>), Places(<<PlaceReims>>),
               Places(<<PlaceEpernay, PlaceReims>>)}

WordParis == <<U("p"), L("a"), L("r"), L("i"), L("s")>>
MainVilles == {NameReims, <<Space>> \o KeyReims, PlaceEpernay.name, WordParis}

Main ==
    [variants |-> Variants, villes |-> MainVilles, cfgs |-> {DefaultCfg}, nows |-> {1000},
     geo |-> GeoReplies, omf |-> OmfReplies, fc |-> FcReplies, pages |-> {A4},
     calls |-> SUBSET BackendCalls, io |-> BOOLEAN, lags |-> {0, 1}]

Spec == Init(Main) /\ [][Next(Main)]_vars

(***************************************************************************)
(* Input universes that are wide in one dimension                          *)
(***************************************************************************)
\* an input that makes every later step succeed
Calm ==
    [variants |-> Variants, villes |-> {NameReims}, cfgs |-> {DefaultCfg}, nows |-> {1000},
     geo |-> {Places(<<PlaceReims>>)}, omf |-> {Raised, CurComplete},
     fc |-> {Fc(<<S36>>, None)}, pages |-> {A4}, calls |-> {{}}, io |-> {TRUE},
     lags |-> {0}]

\* --- spellings of the --ville argument ---
MaxEdits == 2

RECURSIVE UpTo(_, _)
\* the subsets of S with at most n elements
UpTo(S, n) ==
    IF n = 0 THEN {{}}
    ELSE LET prev == UpTo(S, n - 1) IN prev \cup {A \cup {x} : A \in prev, x \in S}

\* w with the edits E: <<i, "up">> upper-cases letter i, <<i, "acc">> replaces it
\* by its accented (precomposed) form, <<i, "mark">> adds a combining accent
RECURSIVE Spell(_, _, _)
Spell(w, E, i) ==
    IF i > Len(w) THEN <<>>
    ELSE <<[w[i] EXCEPT !.up = (<<i, "up">> \in E), !.acc = (<<i, "acc">> \in E)]>>
         \o (IF <<i, "mark">> \in E THEN <<CombiningAcute>> ELSE <<>>)
         \o Spell(w, E, i + 1)

Spellings(w) ==
    {Spell(w, E, 1) : E \in UpTo((1..Len(w)) \X {"up", "acc", "mark"}, MaxEdits)}

Padded(S) ==
    S \cup {<<Space>> \o v : v \in S} \cup {v \o <<Space>> : v \in S}
      \cup {<<Space>> \o v \o <<Space, Space>> : v \in S}

\* words that are no key: another city, a key cut short, a key with an inner space
OtherWords ==
    {WordParis, SubSeq(KeyReims, 1, 4),
     <<L("r"), L("e"), Space, L("i"), L("m"), L("s")>>, <<>>}

WideVilles == Padded(Spellings(KeyReims) \cup Spellings(KeyEpernay) \cup OtherWords)

Identifiers ==
    [Calm EXCEPT !.villes = WideVilles, !.omf = {CurComplete},
                 !.geo = {Places(<<>>), Places(<<PlaceReims>>)}]

SpecResolve == Init(Identifiers) /\ [][Next(Identifiers)]_vars

\* --- forecast step collections ---
MaxSteps == 3

RECURSIVE SeqsUpTo(_, _)
\* the non-empty sequences over S of length at most n
SeqsUpTo(S, n) ==
    IF n = 0 THEN {}
    ELSE LET shorter == SeqsUpTo(S, n - 1) IN
         {<<x>> : x \in S} \cup {Append(q, x) : q \in shorter, x \in S}

\* a step stamped dt reports dt as its speed (km/h) so that steps differ
Stamped(dt) == Step(Num(dt), ("wind10m" :> Num(dt * 1000)) @@ ("dirwind10m" :> Num(0)))
Unstamped == Step(Absent, ("wind10m" :> Num(77000)) @@ ("dirwind10m" :> Num(0)))
StepPool == {Stamped(dt) : dt \in {400, 970, 1000, 1030, 1500}} \cup {Unstamped}

Collections ==
    [Calm EXCEPT !.nows = {1000, 1030}, !.omf = {Raised},
                 !.fc = {Fc(q, None) : q \in SeqsUpTo(StepPool, MaxSteps)}]

SpecSelect == Init(Collections) /\ [][Next(Collections)]_vars

\* --- directions: every quarter degree of [0, 360] ---
Directions ==
    [Calm EXCEPT !.omf = {Raised} \cup {Cur(Num(20500), Num(q)) : q \in 0..(360 * 4)}]

SpecCompass == Init(Directions) /\ [][Next(Directions)]_vars

\* --- layouts ---
Layouts ==
    [Calm EXCEPT !.cfgs = {[DefaultCfg EXCEPT !.fontsize = b, !.title_fontsize = t,
                                              !.margin = m] :
                           b \in {9, 12}, t \in {14, 18}, m \in {12, 20}},
                 !.pages = {A4, Shifted},
                 !.calls = SUBSET BackendCalls]

SpecLayout == Init(Layouts) /\ [][Next(Layouts)]_vars

\* --- field names of the selected step ---
\* the two tiers of one step: top-level aliases and the "wind" value
Aliased(top, wind) == Step(Num(1000), top @@ Opt("wind", wind))
TopSpeeds ==
    {Opt("wind10m", a) @@ Opt("wind_speed_10m", b) :
        a \in {Absent, None, Bad, Num(41000)}, b \in {Absent, None, Bad, Num(12000)}}
TopDirs ==
    {Opt("dirwind10m", a) @@ Opt("WindDirection", b) :
        a \in {Absent, Bad, Num(0)}, b \in {Absent, Bad, Num(360)}}
\* "wind" missing, not a dict, or a dict of nested aliases
Winds ==
    {Absent, Num(5000)} \cup
    {Dict(Opt("speed", a) @@ Opt("v", b) @@ Opt("dir", c) @@ Opt("d", e)) :
        a \in {Absent, Bad, Num(51000)}, b \in {Absent, Num(16000)},
        c \in {Absent, Bad}, e \in {Absent, Num(1080)}}

FieldNames ==
    [Calm EXCEPT !.omf = {Raised},
                 !.fc = {Fc(<<Aliased(s @@ d, w)>>, None) :
                         s \in TopSpeeds, d \in TopDirs, w \in Winds}]

SpecExtract == Init(FieldNames) /\ [][Next(FieldNames)]_vars


\* --- what the forecast says of its position ---
Positions ==
    {None, Dict(EmptyDict), Dict("timezone" :> ""), Martinique, Dict("timezone" :> "UTC"),
     Dict("timezone" :> "Indian/Reunion"), Dict("timezone" :> "Mars/Phobos")}

\* 1 July 2024, 12:00 UTC
Noon1July2024 == 1719835200

Zones ==
    [Calm EXCEPT !.omf = {Raised, CurComplete},
                 !.nows = {1000, Noon1July2024},
                 !.lags = {0, 1},
                 !.fc = {Fc(q, p) : q \in {<<>>, <<S36>>, <<S40>>, <<S55, S36>>},
                                    p \in Positions}]

SpecZone == Init(Zones) /\ [][Next(Zones)]_vars

(***************************************************************************)
(* Properties                                                              *)
(***************************************************************************)
\* main has passed the weather fetches
Fetched == lines # <<>>
\* a speed in ten-thousandths of km/h
Fine(x) == IF x.e = 1 THEN x.v ELSE 10 * x.v
IsNumber(v) == v # None /\ v.k = "num"
\* the raw Open-Meteo reply carries a speed and a direction
RealtimePair ==
    /\ omf # NotQueried
    /\ omf # Raised
    /\ IsNumber(Get(omf.d, "wind_speed_10m"))
    /\ IsNumber(Get(omf.d, "wind_direction_10m"))
ForecastPair == mf # NotQueried /\ mf.speed # None /\ mf.deg # None
WeatherFetches ==
    {"fetch_openmeteo_current", "mf_fetch_near_now_wind_latlon", "mf_fetch_near_now_wind"}

\* C1: in the mixed script the pair finally used is the pair of the first source,
\* Open-Meteo then Meteo-France, whose speed and direction are both present; an
\* Open-Meteo reply with one field only is dropped whole and the forecast is asked;
\* speed and direction always come from the same source, or are both absent.
C1_FirstCompletePair ==
    (variant = "mixed" /\ Fetched) =>
        IF RealtimePair
        THEN /\ spd = omf.d["wind_speed_10m"]
             /\ deg = omf.d["wind_direction_10m"]
             /\ source = "OMF"
             /\ fc = NotQueried
        ELSE /\ fc # NotQueried
             /\ IF ForecastPair
                THEN spd = mf.speed /\ deg = mf.deg /\ source = "MF"
                ELSE spd = None /\ deg = None /\ source = "None"

\* Open-Meteo gave a direction and no speed, the forecast gave the pair in use
C1_Witness ==
    /\ variant = "mixed"
    /\ pc = "done"
    /\ omf = Cur(Absent, Num(360))
    /\ ForecastPair
    /\ source = "MF"
    /\ spd = mf.speed
    /\ deg = mf.deg
    /\ deg # Num(360)

\* C2: no exception leaves a weather fetch: a failed retrieval, a malformed reply
\* or an empty step collection gives Absent.
C2_NoExceptionEscapes ==
    variant = "mixed" => ~(pc = "aborted" /\ error.origin \in WeatherFetches)

\* C3: when the place resolves and the document opens and saves, a run in which no
\* source gives a complete pair still writes the document, with "N/A" on the
\* direction line and on the speed line.
C3_WeatherNeverFatal ==
    ( /\ pc \in {"done", "aborted"}
      /\ (variant = "openmeteo" => places # NotQueried /\ places # Raised
                                      /\ places.list # <<>>)
      /\ (variant # "openmeteo" => meta # NoMeta)
      /\ error.origin \notin {"fitz.open", "doc.save", "_draw_line_right"}
      /\ ~RealtimePair
      /\ fc # NotQueried
      /\ ~ForecastPair )
    => /\ pc = "done"
       /\ Len(output) = 4
       /\ output[3].text = "Direction : N/A"
       /\ output[4].text = "Vitesse : N/A"

\* --- C4 ---
\* s without its diacritics and case-folded
Folded(s) ==
    LET t == SelectSeq(s, LAMBDA c : c # CombiningAcute)
    IN [i \in 1..Len(t) |-> L(t[i].b)]
\* s without the spaces around it
Trimmed(s) ==
    LET inked == {i \in 1..Len(s) : s[i] # Space}
        first == CHOOSE i \in inked : \A j \in inked : i <= j
        last == CHOOSE i \in inked : \A j \in inked : j <= i
    IN IF inked = {} THEN <<>> ELSE SubSeq(s, first, last)
Resolved == pc # "resolve"
\* the run stopped on the location error and wrote nothing
NotFound(lists_keys) ==
    /\ pc = "aborted"
    /\ error.type = "ValueError"
    /\ error.ville = args.ville
    /\ lists_keys => error.dispo = <<KeyReims, KeyEpernay>>
    /\ output = NoOutput
    /\ placed = <<>>
\* what the claim says of an identifier whose comparison form is k
LocationRule(k) ==
    /\ (variant # "openmeteo" /\ Resolved) =>
           IF k \in {KeyReims, KeyEpernay}
           THEN pc # "aborted" => (meta = CITY_MAP[k] /\ ville = CITY_MAP[k].name)
           ELSE NotFound(TRUE)
    /\ (variant # "openmeteo" /\ Resolved /\ k \in {KeyReims, KeyEpernay}) =>
           error.origin # "main"
    /\ (variant = "openmeteo" /\ Resolved /\ places # Raised /\ places.list = <<>>) =>
           NotFound(FALSE)

\* C4 as stated: an identifier that, diacritics removed and case-folded, is no key
\* of the table (or a geocode search without candidates) aborts the run with the
\* location error, nothing is written and the static error lists the keys; an
\* identifier that is a key up to diacritics and case resolves to that key's record.
C4_FoldedOnly == LocationRule(Folded(args.ville))

\* C4 amended: the comparison form also drops the spaces around the identifier.
C4_FoldedAndTrimmed == LocationRule(Trimmed(Folded(args.ville)))

\* "Epernay" typed with an accent, a capital and a space around it resolves
C4_Witness ==
    /\ variant = "meteofrance"
    /\ pc = "done"
    /\ \E i \in 1..Len(args.ville) : args.ville[i].acc
    /\ \E i \in 1..Len(args.ville) : args.ville[i].up
    /\ Head(args.ville) = Space
    /\ meta = CITY_MAP[KeyEpernay]

\* --- C5 ---
Distance(s) == Abs(s["dt"].v - now)
AllStamped == \A i \in 1..Len(fc.forecast) : "dt" \in DOMAIN fc.forecast[i]
ForecastAnswered ==
    fc # NotQueried /\ fc # Raised /\ fc.forecast # <<>> /\ mf # NotQueried

\* C5: from a non-empty collection of stamped steps the forecast fetch selects a
\* step whose |timestamp - now| is minimal, and among the steps at that distance
\* the one that comes first; steps at now-600, now-30, now+500 give the now-30 step.
C5_NearestFirst ==
    (ForecastAnswered /\ AllStamped) =>
        /\ \E i \in 1..Len(fc.forecast) :
              /\ best = fc.forecast[i]
              /\ \A j \in 1..Len(fc.forecast) :
                    Distance(fc.forecast[i]) <= Distance(fc.forecast[j])
              /\ \A j \in 1..(i - 1) :
                    Distance(fc.forecast[j]) > Distance(fc.forecast[i])
        /\ ( /\ Len(fc.forecast) = 3
             /\ fc.forecast[1]["dt"].v = now - 600
             /\ fc.forecast[2]["dt"].v = now - 30
             /\ fc.forecast[3]["dt"].v = now + 500 ) => best["dt"].v = now - 30

\* two steps 30 s away, after and before now: the earlier in the list is selected
C5_Witness ==
    /\ pc = "done"
    /\ now = 1000
    /\ fc = Fc(<<Stamped(1500), Stamped(1030), Stamped(970)>>, None)
    /\ best = Stamped(1030)

\* --- C6 ---
\* the speed the fetch of the running script reads in the selected step
RawSpeed == IF variant = "openmeteo" THEN Get(best, "wind10m") ELSE ExtractSpeed(best)

\* C6: the forecast fetch returns a raw speed below 40 multiplied by 3.6, a raw
\* speed of 40 or more unchanged, and an absent speed as absent.
C6_HeuristicAlways ==
    ForecastAnswered =>
        /\ RawSpeed = None => mf.speed = None
        /\ (RawSpeed # None /\ RawSpeed.v < 40000) =>
               (mf.speed # None /\ 10 * Fine(mf.speed) = 36 * Fine(RawSpeed))
        /\ (RawSpeed # None /\ RawSpeed.v >= 40000) => mf.speed = RawSpeed

\* --- C7 ---
CompassRose == <<"N", "NNE", "NE", "ENE", "E", "ESE", "SE", "SSE",
                 "S", "SSO", "SO", "OSO", "O", "ONO", "NO", "NNO">>

\* the label of a direction of q quarter degrees is the label of index k mod 16
\* for an integer k nearest to q / 90 (= deg / 22.5)
NearestLabel(label, q) ==
    \E k \in 0..16 : 2 * Abs(q - 90 * k) <= 90 /\ label = CompassRose[(k % 16) + 1]

\* C7: for a direction in [0, 360] the direction line carries the label of index
\* round(deg / 22.5) mod 16 of the sixteen labels; 360 gives the label of 0.
C7_CompassIndex ==
    (Fetched /\ deg # None /\ deg.v \in 0..1440) =>
        /\ \E l \in 1..16 : /\ lines[3] = "Direction : " \o CompassRose[l]
                            /\ NearestLabel(CompassRose[l], deg.v)
        /\ deg.v \in {0, 1440} => lines[3] = "Direction : N"

\* 360 degrees is rendered as N
C7_Witness ==
    /\ pc = "done"
    /\ deg = Num(1440)
    /\ output[3].text = "Direction : N"

\* --- C8 ---
\* C8: whatever backend calls fail while a line is drawn, the line ends up on the
\* page, measured and right-aligned with the first font that works or else at the
\* fixed offset from the right edge, and the render never fails because of it.
C8_CascadeNeverFails ==
    /\ error.origin # "_draw_line_right"
    /\ \A i \in 1..Len(placed) :
          /\ placed[i].text = lines[i]
          /\ placed[i].measured \/ placed[i].x = box.x + box.w - 6 - 200

\* --- C9 ---
\* C9: the title baseline is box.y + 6 + title size, each body baseline is the
\* previous baseline + body size + 5; the title's allowance is counted once.
C9_Baselines ==
    \A i \in 1..Len(placed) :
        IF i = 1 THEN placed[1].y = box.y + 6 + args.title_fontsize
        ELSE placed[i].y = placed[i - 1].y + args.fontsize + 5

\* the four lines of a box 20 pt below a page top at 20, title 18 pt, body 9 pt
C9_Witness ==
    /\ pc = "done"
    /\ Len(output) = 4
    /\ box.y = 40
    /\ args.title_fontsize = 18
    /\ args.fontsize = 9
    /\ <<output[1].y, output[2].y, output[3].y, output[4].y>> = <<64, 78, 92, 106>>

\* --- C10 ---
\* the text of v ten-thousandths of km/h with one decimal: the nearest tenth
OneDecimal(text, v) ==
    \E n \in {v \div 1000, (v \div 1000) + 1} :
        /\ 2 * Abs(v - 1000 * n) <= 1000
        /\ text = ToString(n \div 10) \o "." \o ToString(n % 10)
ForecastSupplied == ForecastPair /\ (variant = "mixed" => source = "MF")

\* C10: the direction line is "Direction : " and the compass label of the direction
\* in use, the speed line "Vitesse : ", the speed in use with one decimal and
\* " km/h"; for Reims with a forecast step of raw speed 36 and direction 270 the
\* four lines are the name, the date, "Direction : O" and "Vitesse : 129.6 km/h".
C10_RenderedLines ==
    Fetched =>
        /\ Len(lines) = 4
        /\ deg = None => lines[3] = "Direction : N/A"
        /\ deg # None => \E l \in 1..16 : /\ lines[3] = "Direction : " \o CompassRose[l]
                                          /\ NearestLabel(CompassRose[l], deg.v)
        /\ spd = None => lines[4] = "Vitesse : N/A"
        /\ spd # None =>
              \E n \in {Fine(spd) \div 1000, (Fine(spd) \div 1000) + 1} :
                  /\ OneDecimal(ToString(n \div 10) \o "." \o ToString(n % 10), Fine(spd))
                  /\ lines[4] = "Vitesse : " \o ToString(n \div 10) \o "."
                                    \o ToString(n % 10) \o " km/h"
        /\ ( /\ variant \in {"mixed", "meteofrance"}
             /\ meta = CITY_MAP[KeyReims]
             /\ ForecastSupplied
             /\ Get(best, "wind10m") = Num(36000)
             /\ Get(best, "dirwind10m") = Num(1080) )
           => /\ lines[1] = NameReims
              /\ lines[2] = DateTxt(wall.v, tzname)
              /\ wall.v >= now
              /\ lines[3] = "Direction : O"
              /\ lines[4] = "Vitesse : 129.6 km/h"

\* the mixed script, Open-Meteo silent, Meteo-France giving 36 from 270 degrees
C10_Witness ==
    /\ variant = "mixed"
    /\ pc = "done"
    /\ meta = CITY_MAP[KeyReims]
    /\ source = "MF"
    /\ best = S36
    /\ output[3].text = "Direction : O"
    /\ output[4].text = "Vitesse : 129.6 km/h"

\* --- C11 ---
\* the value of the first alias of keys, in order, that d carries as a number
FirstNumber(d, keys) ==
    LET hits == {i \in 1..Len(keys) : keys[i] \in DOMAIN d /\ IsNumber(d[keys[i]])}
    IN IF hits = {} THEN None
       ELSE d[keys[CHOOSE i \in hits : \A j \in hits : i <= j]]
\* top-level aliases first, the "wind" sub-structure only when none gives a number
TwoTier(b, top, nested) ==
    IF FirstNumber(b, top) # None THEN FirstNumber(b, top)
    ELSE IF Get(b, "wind").k = "dict" THEN FirstNumber(Get(b, "wind").d, nested)
    ELSE None

\* C11: the speed returned for the selected step is the first numeric top-level
\* speed alias, in the fixed order, and only when there is none the first numeric
\* alias of the nested "wind" structure (in km/h, as read or converted from m/s);
\* the direction follows the same rule with its own lists; each depends on its
\* own fields only.
C11_TwoTierAliases ==
    ForecastAnswered =>
        LET s == TwoTier(best, SpeedKeys, WindSpeedKeys)
            d == TwoTier(best, DirKeys, WindDirKeys)
        IN /\ mf.speed = None <=> s = None
           /\ s # None => (mf.speed = s \/ 10 * Fine(mf.speed) = 36 * Fine(s))
           /\ mf.deg = d

\* the same rule in the two scripts that resolve the place from the table
C11_TwoTierAliases_latlon == variant # "openmeteo" => C11_TwoTierAliases

\* --- C12 ---
\* Paris is on summer time from 31 March to 27 October 2024, 01:00 UTC
Summer2024 == 1711846800..1729990799
\* the forecast object names a timezone
Declares ==
    /\ fc.position.k = "dict"
    /\ "timezone" \in DOMAIN fc.position.d
    /\ fc.position.d["timezone"] # ""

\* C12: when the forecast supplies the observation, the timezone of the run is the
\* one the forecast declares, and without a declaration the timezone of the
\* resolved place; the date line is the clock reading in that zone.
C12_TimezoneUsed ==
    ForecastSupplied =>
        /\ Declares => tzname = fc.position.d["timezone"]
        /\ (~Declares /\ variant # "openmeteo") => tzname = meta.tz
        /\ (Fetched /\ Declares /\ fc.position.d["timezone"] = "America/Martinique") =>
               lines[2] = ToString(wall.v - 4 * 3600)
        /\ (Fetched /\ ~Declares /\ variant # "openmeteo" /\ meta.tz = "Europe/Paris") =>
               lines[2] = ToString(wall.v + (IF wall.v \in Summer2024 THEN 7200 ELSE 3600))

\* Reims, whose table entry says Europe/Paris, dated in the zone the forecast declares
C12_Witness ==
    /\ variant = "mixed"
    /\ pc = "done"
    /\ source = "MF"
    /\ meta.tz = "Europe/Paris"
    /\ fc.position = Martinique
    /\ tzname = "America/Martinique"
    /\ wall.v > now
    /\ output[2].text = ToString(wall.v - 14400)

\* without a declaration the place's zone stays
C12_Witness_hint ==
    /\ variant = "mixed"
    /\ pc = "done"
    /\ source = "MF"
    /\ fc.position = Dict("timezone" :> "")
    /\ tzname = "Europe/Paris"

\* --- C13 ---
Count(q, x) == Cardinality({i \in 1..Len(q) : q[i] = x})
LocationResolved == meta # NoMeta
LayoutStarted == box # NoBox \/ placed # <<>> \/ output # NoOutput
\* what holds of the calls made so far
QueryOrder ==
    /\ Count(asked, "OMF") <= 1
    /\ Count(asked, "MF") <= 1
    /\ \A i, j \in 1..Len(asked) : (asked[i] = "OMF" /\ asked[j] = "MF") => i < j
    /\ asked # <<>> => LocationResolved
    /\ variant = "mixed" =>
          /\ Count(asked, "MF") = 1 => (Count(asked, "OMF") = 1 /\ ~RealtimePair)
          /\ (Count(asked, "OMF") = 1 /\ ~RealtimePair /\ pc # "forecast") =>
                 Count(asked, "MF") = 1
          /\ (Count(asked, "OMF") = 1 /\ omf = Raised /\ pc # "forecast") =>
                 (Count(asked, "MF") = 1 /\ error.origin # "fetch_openmeteo_current")
          /\ LayoutStarted => Count(asked, "OMF") = 1
    /\ LayoutStarted => (Count(asked, "MF") = 1 \/ (variant = "mixed" /\ RealtimePair))
\* a call is made after the resolution and before the layout; the box of the one
\* layout pass is set once and each of the four lines is placed once
QueryStep ==
    /\ asked' # asked => (LocationResolved /\ ~LayoutStarted /\ ~LayoutStarted')
    /\ box # NoBox => box' = box
    /\ placed' # placed => (Len(placed') = Len(placed) + 1 /\ Len(placed') <= 4)

\* C13: each weather source is queried at most once in a run, Open-Meteo before
\* Meteo-France; in the mixed script the forecast is queried exactly when the
\* realtime attempt gave no complete pair, a failed (timed out) realtime call
\* included, which is not retried; the queries come after the location is
\* resolved and before the single layout pass.
C13_SequentialOnce == [](QueryOrder) /\ [][QueryStep]_vars

\* the realtime call failed, the forecast was asked once, the document was written
C13_Witness ==
    /\ variant = "mixed"
    /\ pc = "done"
    /\ omf = Raised
    /\ asked = <<"OMF", "MF">>
    /\ source = "MF"
    /\ Len(output) = 4

\* --- C14 ---
\* positions of the steps without a timestamp
Bare == {i \in 1..Len(fc.forecast) : "dt" \notin DOMAIN fc.forecast[i]}
\* a stamped step at distance 0 stands before every step without a timestamp
ExactBefore(j) ==
    /\ "dt" \in DOMAIN fc.forecast[j]
    /\ fc.forecast[j]["dt"].v = now
    /\ \A i \in Bare : j < i

\* C14: a step without a timestamp counts as stamped now: when the collection has
\* one, the selected step is the first step at distance 0, so never a stamped step
\* away from now, and a stamped step only if it is stamped now and comes first;
\* the step epoch reported for a selected step without a timestamp is now.
C14_BareStepIsNow ==
    (ForecastAnswered /\ Bare # {}) =>
        /\ "dt" \in DOMAIN best =>
               /\ best["dt"].v = now
               /\ \E j \in 1..Len(fc.forecast) : fc.forecast[j] = best /\ ExactBefore(j)
        /\ "dt" \notin DOMAIN best => ~\E j \in 1..Len(fc.forecast) : ExactBefore(j)
        /\ ("dt" \notin DOMAIN best /\ variant # "openmeteo") => mf.step_dt = Num(now)

\* a step 30 s away, then one without a timestamp, then one stamped now
C14_Witness ==
    /\ variant = "mixed"
    /\ pc = "done"
    /\ now = 1000
    /\ fc = Fc(<<Stamped(970), Unstamped, Stamped(1000)>>, None)
    /\ best = Unstamped
    /\ mf.step_dt = Num(1000)

====
